---- MODULE Spec2Model ----
(***************************************************************************)
(* Model of padt_api_server (src/main.go): the main routine, the shutdown  *)
(* goroutine, the HTTP server's connections and the composed handler       *)
(* tracing(logging(router)) with the three routed handlers.                *)
(*                                                                         *)
(* A URL path is the sequence of its segments after the leading slash:     *)
(* "/" is <<"">>, "/padt" is <<"padt">>, "/padt/" is <<"padt", "">> and    *)
(* "//x" is <<"", "x">>.  A text (file contents, response body) is a       *)
(* sequence of tokens, one of which is the placeholder ${PartyID}.         *)
(***************************************************************************)
EXTENDS Integers, Sequences, FiniteSets, TLC

\* ---------------------------------------------------------------- bounds
MaxConns == 1
MaxFileLen == 2

\* ------------------------------------------------------------- constants
StatusOK == 200
StatusNoContent == 204
StatusMovedPermanently == 301
StatusNotFound == 404
StatusInternalServerError == 500
StatusServiceUnavailable == 503

Placeholder == "${PartyID}"
NoValue == "none"
UuidError == "uuid-error"

Methods == {"GET", "POST", "CONNECT"}
HeaderIds == {"", "r1", "unknown"}
GenIds == {"t1"}
Uuids == {"u1", "u2"}
UuidOutcomes == Uuids \cup {UuidError}
Tokens == {Placeholder, "a"}

SeqsUpTo(S, n) == UNION {[1..k -> S] : k \in 0..n}
\* "/", "/healthz", "/padt", "/x", "/healthz/", "/padt/x", "//padt",
\* "/x/../healthz", "/./"
Paths ==
  {<<"">>, <<"healthz">>, <<"padt">>, <<"x">>, <<"healthz", "">>, <<"padt", "x">>,
   <<"", "padt">>, <<"x", "..", "healthz">>, <<".", "">>}
Texts == SeqsUpTo(Tokens, MaxFileLen)
\* What ioutil.ReadFile returns: the contents, or an error.
NoFile == [err |-> TRUE, data |-> <<>>]
File(c) == [err |-> FALSE, data |-> c]
Files == {NoFile} \cup {File(c) : c \in Texts}
Requests == [path : Paths, method : Methods, reqId : HeaderIds, hasBody : BOOLEAN]

\* ------------------------------------------------------------------ state
\* mpc, gpc: where the main routine and the shutdown goroutine stand; quit:
\* signals waiting in the quit channel; healthy: the health flag; inShutdown:
\* the server's shutdown mark; done: the done channel; exit: how the process
\* ended, NoValue while it runs; active: connections accepted and not yet
\* served; file: the configured file on disk; debug: the -debug flag; last:
\* the exchange completed by the step just taken, NoExchange if it served none.
VARIABLES mpc, gpc, quit, healthy, inShutdown, done, exit, active, file, debug, last
vars == <<mpc, gpc, quit, healthy, inShutdown, done, exit, active, file, debug, last>>


\* --------------------------------------------------------- pure functions
getDefaultResponse == <<"<ManagePartyResponse/>">>

UnableToRead == "Unable to read file\nServing default response\n"

\* strings.Replace with n = 1 in place of strings.ReplaceAll
RECURSIVE ReplaceAll_first(_, _, _)
ReplaceAll_first(s, old, new) ==
  IF s = <<>> THEN <<>>
  ELSE IF Head(s) = old THEN <<new>> \o Tail(s)
  ELSE <<Head(s)>> \o ReplaceAll_first(Tail(s), old, new)

RECURSIVE ReplaceAll(_, _, _)
ReplaceAll(s, old, new) ==
  IF s = <<>> THEN <<>>
  ELSE <<IF Head(s) = old THEN new ELSE Head(s)>> \o ReplaceAll(Tail(s), old, new)

\* path.Clean on the segments: drops empty and "." segments, resolves "..".
RECURSIVE CleanSegs(_, _)
CleanSegs(segs, acc) ==
  IF segs = <<>> THEN acc
  ELSE IF Head(segs) \in {"", "."} THEN CleanSegs(Tail(segs), acc)
  ELSE IF Head(segs) = ".." THEN
    CleanSegs(Tail(segs), IF acc = <<>> THEN acc ELSE SubSeq(acc, 1, Len(acc) - 1))
  ELSE CleanSegs(Tail(segs), Append(acc, Head(segs)))

\* net/http's cleanPath: path.Clean, keeping a trailing slash.
cleanPath(p) ==
  LET np == CleanSegs(p, <<>>)
  IN IF np = <<>> THEN <<"">>
     ELSE IF p[Len(p)] = "" THEN Append(np, "") ELSE np

\* index without the test of the path
index_noPathCheck(req) ==
  [handler |-> "index", status |-> StatusOK,
   ctype |-> "text/plain; charset=utf-8",
   body |-> <<"use /padt as the URL to POST to\n">>,
   partyId |-> NoValue, bodyRead |-> FALSE]

\* index(), src/main.go:89
index(req) ==
  IF req.path # <<"">>
  THEN [handler |-> "index", status |-> StatusNotFound,
        ctype |-> "text/plain; charset=utf-8", body |-> <<"Not Found\n">>,
        partyId |-> NoValue, bodyRead |-> FALSE]
  ELSE [handler |-> "index", status |-> StatusOK,
        ctype |-> "text/plain; charset=utf-8",
        body |-> <<"use /padt as the URL to POST to\n">>,
        partyId |-> NoValue, bodyRead |-> FALSE]

\* healthz(), src/main.go:102
healthz(h) ==
  [handler |-> "healthz",
   status |-> IF h = 1 THEN StatusNoContent ELSE StatusServiceUnavailable,
   ctype |-> "", body |-> <<>>, partyId |-> NoValue, bodyRead |-> FALSE]

\* the read error tested the wrong way round: a readable file is answered
\* with the default payload
sendPadtResponse_errInverted(req, f, uu, dbg) ==
  LET readErr == ~f.err
      content == IF readErr THEN getDefaultResponse ELSE f.data
      fileContent == IF uu # UuidError THEN ReplaceAll(content, Placeholder, uu)
                     ELSE content
  IN [handler |-> "padt",
      status |-> IF readErr THEN StatusInternalServerError ELSE StatusOK,
      ctype |-> IF readErr THEN "text/plain; charset=utf-8" ELSE "application/xml",
      body |-> (IF readErr THEN <<UnableToRead>> ELSE <<>>) \o fileContent,
      partyId |-> uu, bodyRead |-> dbg /\ req.hasBody]

\* sendPadtResponse(), src/main.go:112.  f is what ioutil.ReadFile returns,
\* uu the outcome of uuid.NewRandom, dbg the -debug flag (the handler then
\* dumps the request to stdout and drains its body).
sendPadtResponse(req, f, uu, dbg) ==
  LET readErr == f.err
      content == IF readErr THEN getDefaultResponse ELSE f.data
      fileContent == IF uu # UuidError THEN ReplaceAll(content, Placeholder, uu)
                     ELSE content
  IN [handler |-> "padt",
      status |-> IF readErr THEN StatusInternalServerError ELSE StatusOK,
      ctype |-> IF readErr THEN "text/plain; charset=utf-8" ELSE "application/xml",
      body |-> (IF readErr THEN <<UnableToRead>> ELSE <<>>) \o fileContent,
      partyId |-> uu, bodyRead |-> dbg /\ req.hasBody]

redirect(p) ==
  [handler |-> "redirect", status |-> StatusMovedPermanently,
   ctype |-> "", body |-> <<>>, partyId |-> NoValue, bodyRead |-> FALSE]

\* The ServeMux built at src/main.go:42-45: exact patterns "/healthz" and
\* "/padt", the subtree pattern "/" for everything else.
match(req, h, f, uu, dbg) ==
  IF req.path = <<"healthz">> THEN healthz(h)
  ELSE IF req.path = <<"padt">> THEN sendPadtResponse(req, f, uu, dbg)
  ELSE index(req)

\* ServeMux.ServeHTTP: a path that is not in canonical form is answered with
\* a redirect to its cleaned form (not for CONNECT), otherwise the matching
\* handler runs.
router(req, h, f, uu, dbg) ==
  IF req.method # "CONNECT" /\ cleanPath(req.path) # req.path
  THEN redirect(cleanPath(req.path))
  ELSE match(req, h, f, uu, dbg)

\* logging(), src/main.go:144: calls next, then (deferred) writes the access
\* line with the id found in the request context, and the request body when
\* any of it is left to read.  ctxId is the context value, NoValue if unset.
logging(ctxId, req, resp) ==
  [resp EXCEPT !.log =
     <<[kind |-> "access", id |-> IF ctxId = NoValue THEN "unknown" ELSE ctxId,
        method |-> req.method, path |-> req.path]>>
     \o (IF req.hasBody /\ ~resp.bodyRead
         THEN <<[kind |-> "body", id |-> "", method |-> "", path |-> <<>>]>>
         ELSE <<>>)]

\* tracing(), src/main.go:168: the request's X-Request-Id or a new id from
\* nextRequestID.
requestID(req, gen) == IF req.reqId = "" THEN gen ELSE req.reqId

Blank(resp, req, gen) ==
  [handler |-> resp.handler, status |-> resp.status, ctype |-> resp.ctype,
   body |-> resp.body, partyId |-> resp.partyId, bodyRead |-> resp.bodyRead,
   req |-> req, gen |-> IF req.reqId = "" THEN gen ELSE NoValue,
   xRequestId |-> NoValue, log |-> <<>>]

\* logging wrapped around tracing: the access line is written from a request
\* whose context carries no id.
Handler_loggingOutermost(req, gen, h, f, uu, dbg) ==
  [logging(NoValue, req, Blank(router(req, h, f, uu, dbg), req, gen))
     EXCEPT !.xRequestId = requestID(req, gen)]

\* server.Handler, src/main.go:53: tracing(nextRequestID)(logging(logger)(router)).
Handler(req, gen, h, f, uu, dbg) ==
  [logging(requestID(req, gen), req, Blank(router(req, h, f, uu, dbg), req, gen))
     EXCEPT !.xRequestId = requestID(req, gen)]

NoExchange ==
  [handler |-> NoValue, status |-> 0, ctype |-> "", body |-> <<>>,
   partyId |-> NoValue, bodyRead |-> FALSE,
   req |-> [path |-> <<>>, method |-> "", reqId |-> "", hasBody |-> FALSE],
   gen |-> NoValue,
   xRequestId |-> NoValue, log |-> <<>>]

\* ------------------------------------------------------------------- init
Init ==
  /\ mpc = "ready"
  /\ gpc = "waitquit"
  /\ quit = 0
  /\ healthy = 0
  /\ inShutdown = FALSE
  /\ done = "open"
  /\ exit = NoValue
  /\ active = 0
  /\ file \in Files
  /\ debug \in BOOLEAN
  /\ last = NoExchange

\* ----------------------------------------------------------- main routine
\* src/main.go:79-80
MainStoreHealthy ==
  /\ exit = NoValue /\ mpc = "ready"
  /\ healthy' = 1
  /\ mpc' = "listen"
  /\ last' = NoExchange
  /\ UNCHANGED <<gpc, quit, inShutdown, done, exit, active, file, debug>>

\* src/main.go:81, ListenAndServe on a server already shut down
ListenClosed ==
  /\ exit = NoValue /\ mpc = "listen" /\ inShutdown
  /\ mpc' = "waitdone"
  /\ last' = NoExchange
  /\ UNCHANGED <<gpc, quit, healthy, inShutdown, done, exit, active, file, debug>>

\* src/main.go:81-83, net.Listen or the accept loop fails with an error that
\* is not ErrServerClosed: logger.Fatalf
ListenFail ==
  /\ exit = NoValue /\ mpc \in {"listen", "serving"} /\ ~inShutdown
  /\ mpc' = "fatal"
  /\ exit' = "fatal"
  /\ last' = NoExchange
  /\ UNCHANGED <<gpc, quit, healthy, inShutdown, done, active, file, debug>>

\* src/main.go:81, the accept loop starts
ListenOk ==
  /\ exit = NoValue /\ mpc = "listen" /\ ~inShutdown
  /\ mpc' = "serving"
  /\ last' = NoExchange
  /\ UNCHANGED <<gpc, quit, healthy, inShutdown, done, exit, active, file, debug>>

\* src/main.go:81, Serve returns ErrServerClosed once Shutdown has begun
ServeReturn ==
  /\ exit = NoValue /\ mpc = "serving" /\ inShutdown
  /\ mpc' = "waitdone"
  /\ last' = NoExchange
  /\ UNCHANGED <<gpc, quit, healthy, inShutdown, done, exit, active, file, debug>>

\* main without the receive from done
MainDone_noWait ==
  /\ exit = NoValue /\ mpc = "waitdone"
  /\ mpc' = "stopped"
  /\ exit' = "normal"
  /\ last' = NoExchange
  /\ UNCHANGED <<gpc, quit, healthy, inShutdown, done, active, file, debug>>

\* src/main.go:85-87
MainDone ==
  /\ exit = NoValue /\ mpc = "waitdone" /\ done = "closed"
  /\ mpc' = "stopped"
  /\ exit' = "normal"
  /\ last' = NoExchange
  /\ UNCHANGED <<gpc, quit, healthy, inShutdown, done, active, file, debug>>

\* ------------------------------------------------------ shutdown goroutine
\* The OS delivers an interrupt; signal.Notify (src/main.go:61-62) puts it in
\* the one-slot channel, a signal finding the slot full is dropped.
Signal ==
  /\ exit = NoValue /\ quit = 0
  /\ quit' = 1
  /\ last' = NoExchange
  /\ UNCHANGED <<mpc, gpc, healthy, inShutdown, done, exit, active, file, debug>>

\* src/main.go:65
GoRecv ==
  /\ exit = NoValue /\ gpc = "waitquit" /\ quit = 1
  /\ quit' = 0
  /\ gpc' = "store0"
  /\ last' = NoExchange
  /\ UNCHANGED <<mpc, healthy, inShutdown, done, exit, active, file, debug>>

\* src/main.go:66-67
GoStoreUnhealthy ==
  /\ exit = NoValue /\ gpc = "store0"
  /\ healthy' = 0
  /\ gpc' = "shutdown"
  /\ last' = NoExchange
  /\ UNCHANGED <<mpc, quit, inShutdown, done, exit, active, file, debug>>

\* src/main.go:69-73, server.Shutdown marks the server and closes the listener
GoShutdownBegin ==
  /\ exit = NoValue /\ gpc = "shutdown"
  /\ inShutdown' = TRUE
  /\ gpc' = "shutting"
  /\ last' = NoExchange
  /\ UNCHANGED <<mpc, quit, healthy, done, exit, active, file, debug>>

\* src/main.go:73, Shutdown returns nil when no connection is active
GoShutdownOk ==
  /\ exit = NoValue /\ gpc = "shutting" /\ active = 0
  /\ gpc' = "close"
  /\ last' = NoExchange
  /\ UNCHANGED <<mpc, quit, healthy, inShutdown, done, exit, active, file, debug>>

\* src/main.go:73-75, Shutdown returns an error (the 30 s context expired
\* or the listener failed to close): logger.Fatalf
GoShutdownErr ==
  /\ exit = NoValue /\ gpc = "shutting"
  /\ gpc' = "fatal"
  /\ exit' = "fatal"
  /\ last' = NoExchange
  /\ UNCHANGED <<mpc, quit, healthy, inShutdown, done, active, file, debug>>

\* the goroutine returning without close(done)
GoCloseDone_forgets ==
  /\ exit = NoValue /\ gpc = "close"
  /\ gpc' = "finished"
  /\ last' = NoExchange
  /\ UNCHANGED <<mpc, quit, healthy, inShutdown, done, exit, active, file, debug>>

\* src/main.go:76
GoCloseDone ==
  /\ exit = NoValue /\ gpc = "close"
  /\ done' = "closed"
  /\ gpc' = "finished"
  /\ last' = NoExchange
  /\ UNCHANGED <<mpc, quit, healthy, inShutdown, exit, active, file, debug>>

\* ------------------------------------------------------------- connections
\* The accept loop of server.ListenAndServe takes a new connection.
Accept ==
  /\ exit = NoValue /\ mpc = "serving" /\ ~inShutdown /\ active < MaxConns
  /\ active' = active + 1
  /\ last' = NoExchange
  /\ UNCHANGED <<mpc, gpc, quit, healthy, inShutdown, done, exit, file, debug>>

\* A connection goes away without a request (client hangs up, read timeout).
ConnClose ==
  /\ exit = NoValue /\ active > 0
  /\ active' = active - 1
  /\ last' = NoExchange
  /\ UNCHANGED <<mpc, gpc, quit, healthy, inShutdown, done, exit, file, debug>>

\* a handler that ends the process (log.Fatal) when the file cannot be read
ServeHTTP_fatalOnReadError(req, gen, uu) ==
  /\ exit = NoValue /\ active > 0
  /\ last' = Handler(req, gen, healthy, file, uu, debug)
  /\ active' = active - 1
  /\ exit' = IF last'.handler = "padt" /\ file.err THEN "fatal" ELSE exit
  /\ UNCHANGED <<mpc, gpc, quit, healthy, inShutdown, done, file, debug>>

\* One request on an active connection runs through server.Handler; the
\* connection is closed afterwards.
ServeHTTP(req, gen, uu) ==
  /\ exit = NoValue /\ active > 0
  /\ last' = Handler(req, gen, healthy, file, uu, debug)
  /\ active' = active - 1
  /\ UNCHANGED <<mpc, gpc, quit, healthy, inShutdown, done, exit, file, debug>>

\* The configured file is written, replaced or removed on disk.
WriteFile(c) ==
  /\ exit = NoValue /\ file # c
  /\ file' = c
  /\ last' = NoExchange
  /\ UNCHANGED <<mpc, gpc, quit, healthy, inShutdown, done, exit, active, debug>>

Serve ==
  \E req \in Requests, gen \in GenIds, uu \in UuidOutcomes : ServeHTTP(req, gen, uu)

Disk == \E c \in Files : WriteFile(c)

Main == MainStoreHealthy \/ ListenClosed \/ ListenFail \/ ListenOk \/ ServeReturn \/ MainDone

Goroutine ==
  GoRecv \/ GoStoreUnhealthy \/ GoShutdownBegin \/ GoShutdownOk \/ GoShutdownErr \/ GoCloseDone

Next == Main \/ Goroutine \/ Signal \/ Accept \/ ConnClose \/ Serve \/ Disk

Spec == Init /\ [][Next]_vars

\* The Go scheduler runs every runnable goroutine: the main routine and the
\* shutdown goroutine each take their next step when one stays possible.
FairSpec == Spec /\ WF_vars(Main) /\ WF_vars(Goroutine)

\* ----------------------------------------------------------------- helpers
Occurs(s, t) == \E i \in 1..Len(s) : s[i] = t

\* The store of 0 at src/main.go:67 has been executed.
FlagCleared == gpc \notin {"waitquit", "store0"}

\* The store of 1 at src/main.go:80 has been executed.
MarkedReady == mpc # "ready"

\* An interrupt has been delivered to the process.
Interrupted == quit = 1 \/ gpc # "waitquit"

\* No empty segment but a final one, no "." and no ".." segment.
Canonical(p) ==
  \/ p = <<"">>
  \/ \A i \in 1..Len(p) : p[i] \notin {".", ".."} /\ (p[i] = "" => (i = Len(p) /\ i > 1))

UsageHint == <<"use /padt as the URL to POST to\n">>

\* ------------------------------------------------------------------ claims

\* C1 (as claimed): a /healthz request handled after the server was marked
\* ready and before the goroutine cleared the flag is answered 204, one
\* handled after the goroutine cleared the flag is answered 503, and none is
\* handled before the flag was set.
C1_HealthzFollowsLifecycle ==
  last.handler = "healthz" =>
    /\ MarkedReady
    /\ (~FlagCleared => last.status = StatusNoContent)
    /\ (FlagCleared => last.status = StatusServiceUnavailable)

\* C2 (as claimed): when the file cannot be read the body of the /padt
\* response is exactly the default payload and the warning is in the log.
C2_FallbackBodyIsDefaultOnly ==
  (last.handler = "padt" /\ file.err) =>
    /\ last.body = getDefaultResponse
    /\ \E i \in 1..Len(last.log) : last.log[i].kind = "warning"

C5_ReadFailureIsHarmless ==
  [][(last'.handler = "padt" /\ file.err) =>
       /\ exit' = NoValue /\ healthy' = healthy
       /\ mpc' = mpc /\ gpc' = gpc /\ inShutdown' = inShutdown /\ done' = done]_vars

C5_Witness ==
  /\ last.handler = "padt" /\ file.err /\ last.status = StatusInternalServerError
  /\ mpc = "serving" /\ healthy = 1 /\ exit = NoValue /\ ~inShutdown

\* C6 (as claimed): "/" gets 200 and the usage hint, "/healthz" the health
\* handler, "/padt" the response handler, every other path 404 and neither
\* of the two handlers.
C6_OtherPathsAre404 ==
  last.handler # NoValue =>
    LET p == last.req.path
    IN /\ (p = <<"">> => last.status = StatusOK /\ last.body = UsageHint)
       /\ (p = <<"healthz">> => last.handler = "healthz")
       /\ (p = <<"padt">> => last.handler = "padt")
       /\ (p \notin {<<"">>, <<"healthz">>, <<"padt">>} =>
             last.status = StatusNotFound /\ last.handler \notin {"healthz", "padt"})

\* C6 (amended): "/" gets 200 and the usage hint, "/healthz" the health
\* handler, "/padt" the response handler; every other path reaches neither
\* of the two handlers and gets 404, or 301 when it is not in canonical form
\* and the method is not CONNECT.
C6_OtherPathsAre404Or301 ==
  last.handler # NoValue =>
    LET p == last.req.path
    IN /\ (p = <<"">> => last.status = StatusOK /\ last.body = UsageHint)
       /\ (p = <<"healthz">> => last.handler = "healthz")
       /\ (p = <<"padt">> => last.handler = "padt")
       /\ (p \notin {<<"">>, <<"healthz">>, <<"padt">>} =>
             /\ last.handler \notin {"healthz", "padt"}
             /\ last.status = IF last.req.method # "CONNECT" /\ ~Canonical(p)
                               THEN StatusMovedPermanently ELSE StatusNotFound)

C6_Witness ==
  /\ last.req.path = <<"padt", "x">> /\ last.status = StatusNotFound
  /\ last.handler = "index"

\* C7: the server's shutdown is initiated only after the goroutine has
\* cleared the flag, and the main routine ends normally only when the
\* shutdown call has returned without error and done is closed.
C7_ShutdownOrdering ==
  /\ inShutdown => FlagCleared
  /\ (mpc = "stopped" \/ exit = "normal") =>
       /\ done = "closed" /\ gpc = "finished" /\ inShutdown
       /\ mpc = "stopped" /\ exit = "normal"

C7_Witness == mpc = "stopped" /\ done = "closed" /\ healthy = 0

\* C8: once an interrupt has been delivered the process eventually exits,
\* normally or fatally; and a failed listen has ended the process fatally
\* with the main routine never waiting on done.
C8_Termination ==
  /\ Interrupted ~> (exit \in {"normal", "fatal"})
  /\ [](mpc = "fatal" => exit = "fatal")
  /\ [][mpc' = "fatal" => mpc \in {"listen", "serving"}]_vars

C8_Witness == Interrupted /\ exit = "fatal" /\ gpc = "fatal" /\ mpc = "waitdone"

\* C9 (as claimed): the flag goes from 0 to 1 only by the main routine's one
\* store and never once the goroutine has cleared it.
C9_FlagStaysCleared ==
  [][(healthy = 0 /\ healthy' = 1) => (mpc = "ready" /\ ~FlagCleared)]_vars

\* C10: the response's X-Request-Id is the request's when that is not empty
\* and a generated id otherwise; the log holds exactly one access line for
\* the request, with that same id, so that "unknown" is logged only when the
\* client sent it.
C10_RequestIdTagged ==
  last.handler # NoValue =>
    /\ last.xRequestId = (IF last.req.reqId # "" THEN last.req.reqId ELSE last.gen)
    /\ (last.req.reqId = "" => last.gen \in GenIds)
    /\ Cardinality({i \in 1..Len(last.log) : last.log[i].kind = "access"}) = 1
    /\ last.log[1].kind = "access"
    /\ last.log[1].id = last.xRequestId
    /\ (last.log[1].id = "unknown" => last.req.reqId = "unknown")

C10_Witness ==
  /\ last.handler = "padt" /\ last.req.reqId = ""
  /\ last.xRequestId \in GenIds /\ last.log[1].id = last.xRequestId

====
